---- MODULE Spec2Model ----
(***************************************************************************)
(* Model of lib/gmail-fetch.py: one command invocation after another of    *)
(* the Gmail CLI.  The persistent state is the two files under             *)
(* ~/.claude/gmail (token.json, credentials.json); everything else lives   *)
(* for one invocation of main().                                           *)
(***************************************************************************)
EXTENDS Naturals, Integers, Sequences, FiniteSets, TLC

\* ------------------------------------------------------------------ bounds
\* Credentials the token endpoint issues in one run of the model.
MaxIssued == 2
\* Message ids of the mailbox; a listing holds each id at most once.
MaxMsgs == 2

VARIABLES
    tokenFile,    \* token.json: [state, cred]
    secretFile,   \* credentials.json exists
    issued,       \* credentials issued so far by the token endpoint
    command,      \* args.command of the running invocation
    argsOk,       \* the command's required arguments were given
    pc,           \* position of the invocation in main()/authenticate()
    creds,        \* local `creds` of authenticate() / of the auth-code branch
    loaded,       \* what line 45 loaded (history of `creds` before any exchange)
    service,      \* gmail.service is set
    authResult,   \* what authenticate() returned: "none" until it returns
    outcome,      \* how the process ended: "running" until it does
    diag,         \* the error message printed, "none" if none
    log,          \* the external calls and file accesses of this invocation, in order
    tokenAtStart, \* token.json as it was when the invocation started
    messages,     \* results.get('messages', []) of the list call
    failing,      \* the message ids whose get() raises HttpError
    emails,       \* the list the read operation returns
    lastDone,     \* the previous invocation: [command, outcome, cred]
    fetched,      \* the messages the get calls returned, in order
    outgoing,     \* the arguments of send_email
    submission,   \* what send_email built: [message, send_message]
    payload,      \* a message handed to _parse_email on its own
    decoded,      \* what _parse_email made of it
    unread,       \* the mailbox's message ids that carry the UNREAD label
    calls         \* the mark_as_read calls made on that mailbox, in order

vars == <<tokenFile, secretFile, issued, command, argsOk, pc, creds, loaded,
          service, authResult, outcome, diag, log, tokenAtStart,
          messages, failing, emails, lastDone, fetched, outgoing, submission,
          payload, decoded, unread, calls>>

\* ------------------------------------------------------------------ values
\* Python's None for `creds`.
NoCred == [id |-> 0, token |-> FALSE, expired |-> FALSE, refresh |-> FALSE]

\* A Credential as from_authorized_user_file / refresh / the flows produce it.
NewCred(n, r) == [id |-> n, token |-> TRUE, expired |-> FALSE, refresh |-> r]

FileAbsent == [state |-> "absent", cred |-> NoCred]
\* open(token_path, 'w') has truncated the file and the JSON is not (wholly) in it.
FileTruncated == [state |-> "truncated", cred |-> NoCred]
FileWith(c) == [state |-> "complete", cred |-> c]

MsgIds == 1 .. MaxMsgs

AuthCommands == {"auth-url", "auth-code"}
UnreadCommands == {"unread"}
FilterCommands == {"filter", "customer-support", "investor-emails"}
ReadCommands == UnreadCommands \cup FilterCommands
ProfileCommands == {"setup-check", "profile"}
Commands == AuthCommands \cup ReadCommands \cup ProfileCommands \cup {"send", "mark-read"}

\* Commands that take a required argument (--code; --to/--subject/--body; --message-id).
ArgCommands == {"auth-code", "send", "mark-read"}

TokenEndpointEvents == {"refresh_ok", "refresh_fail", "consent_ok", "consent_fail",
                        "exchange_ok", "exchange_rejected"}
MailboxEvents == {"list", "get", "send", "modify", "get_profile"}

Count(s, e) == Cardinality({i \in DOMAIN s : s[i] = e})
Has(s, e) == \E i \in DOMAIN s : s[i] = e
HasAny(s, E) == \E i \in DOMAIN s : s[i] \in E

\* Sequences over S without repetition, of every length.
RECURSIVE Listings(_)
Listings(S) ==
    IF S = {} THEN {<<>>}
    ELSE {<<>>} \cup UNION {{<<x>> \o t : t \in Listings(S \ {x})} : x \in S}

\* ------------------------------------------------------------------ credentials
\* google.oauth2 Credentials.valid: a token that has not expired.
Valid(c) == c.token /\ ~c.expired

\* `not creds`
IsNone(c) == c.id = 0


\* ------------------------------------------------------------------ base64url, UTF-8
\* Text is a sequence of code points (below 2048 here), bytes a sequence of
\* 0 .. 255, base64url text a sequence of alphabet positions: A-Z 0-25, a-z 26-51,
\* 0-9 52-61, '-' 62, '_' 63, and Pad for '='.
Pad == 64

IsPad(x) == x = Pad
NotPad(x) == x # Pad

RECURSIVE TrailingPads(_)
TrailingPads(s) ==
    IF s = <<>> \/ s[Len(s)] # Pad THEN 0
    ELSE 1 + TrailingPads(SubSeq(s, 1, Len(s) - 1))

\* The bytes of whole groups of four sextets, then of a last group of three or two.
RECURSIVE SextetsToBytes(_)
SextetsToBytes(d) ==
    IF Len(d) >= 4
    THEN LET n == d[1] * 262144 + d[2] * 4096 + d[3] * 64 + d[4] IN
         <<n \div 65536, (n \div 256) % 256, n % 256>>
             \o SextetsToBytes(SubSeq(d, 5, Len(d)))
    ELSE IF Len(d) = 3
         THEN LET n == d[1] * 4096 + d[2] * 64 + d[3] IN
              <<n \div 1024, (n \div 4) % 256>>
         ELSE IF Len(d) = 2
              THEN <<(d[1] * 64 + d[2]) \div 16>>
              ELSE <<>>

\* base64.urlsafe_b64decode: '=' may stand only at the end; the data characters
\* must be a multiple of four, or two more with at least two '=', or three more
\* with at least one '='.  Anything else raises binascii.Error.
B64Decode(s) ==
    LET p == TrailingPads(s)
        d == SubSeq(s, 1, Len(s) - p)
        r == Len(d) % 4
    IN  IF \/ \E i \in DOMAIN d : d[i] = Pad
           \/ r = 1
           \/ (r = 2 /\ p < 2)
           \/ (r = 3 /\ p < 1)
        THEN [ok |-> FALSE, bytes |-> <<>>]
        ELSE [ok |-> TRUE, bytes |-> SextetsToBytes(d)]

\* base64.urlsafe_b64encode: three bytes to four sextets, the rest padded with '='.
RECURSIVE B64Encode(_)
B64Encode(b) ==
    IF Len(b) >= 3
    THEN LET n == b[1] * 65536 + b[2] * 256 + b[3] IN
         <<n \div 262144, (n \div 4096) % 64, (n \div 64) % 64, n % 64>>
             \o B64Encode(SubSeq(b, 4, Len(b)))
    ELSE IF Len(b) = 2
         THEN LET n == (b[1] * 256 + b[2]) * 4 IN
              <<n \div 4096, (n \div 64) % 64, n % 64, Pad>>
         ELSE IF Len(b) = 1
              THEN <<b[1] \div 4, (b[1] % 4) * 16, Pad, Pad>>
              ELSE <<>>

\* bytes.decode('utf-8') for one- and two-byte sequences; a lone continuation
\* byte, a cut sequence, an overlong lead (192, 193) or a byte that starts no
\* sequence raises UnicodeDecodeError.
RECURSIVE Utf8Decode(_)
Utf8Decode(b) ==
    IF b = <<>> THEN [ok |-> TRUE, text |-> <<>>]
    ELSE IF b[1] < 128
         THEN LET rest == Utf8Decode(Tail(b)) IN
              [ok |-> rest.ok, text |-> IF rest.ok THEN <<b[1]>> \o rest.text ELSE <<>>]
         ELSE IF b[1] >= 194 /\ b[1] <= 223 /\ Len(b) >= 2 /\ b[2] >= 128 /\ b[2] <= 191
              THEN LET rest == Utf8Decode(SubSeq(b, 3, Len(b))) IN
                   [ok |-> rest.ok,
                    text |-> IF rest.ok
                             THEN <<(b[1] - 192) * 64 + (b[2] - 128)>> \o rest.text
                             ELSE <<>>]
              ELSE [ok |-> FALSE, text |-> <<>>]

\* str.encode('utf-8') for code points below 2048.
RECURSIVE Utf8Encode(_)
Utf8Encode(t) ==
    IF t = <<>> THEN <<>>
    ELSE (IF t[1] < 128 THEN <<t[1]>>
          ELSE <<192 + (t[1] \div 64), 128 + (t[1] % 64)>>) \o Utf8Encode(Tail(t))

\* ------------------------------------------------------------------ frames
files == <<tokenFile, secretFile, issued>>
batch == <<messages, failing, emails, fetched>>
sending == <<outgoing, submission>>
pure == <<payload, decoded, unread, calls>>
invocation == <<command, argsOk, tokenAtStart, lastDone>>

NotLoaded == [done |-> FALSE, cred |-> NoCred]
\* Nothing to send, nothing built, nothing to parse, nothing parsed.
NoOutgoing == [to |-> "", subject |-> "", body |-> <<>>, is_html |-> FALSE, reply_to_id |-> "<None>"]
NoSubmission == [built |-> FALSE]
NoMessage == [id |-> 0]
NoDecoded == [done |-> FALSE]
NoInvocation == [command |-> "none", outcome |-> "none", cred |-> NoCred]

\* The process ends: sys.exit(code), falling off main(), or an unhandled exception.
Exit(o, d) == pc' = "done" /\ outcome' = o /\ diag' = d

Init ==
    /\ tokenFile = FileAbsent
    /\ secretFile \in BOOLEAN
    /\ issued = 0
    /\ command = "none"
    /\ argsOk = TRUE
    /\ pc = "idle"
    /\ creds = NoCred
    /\ loaded = NotLoaded
    /\ service = FALSE
    /\ authResult = "none"
    /\ outcome = "none"
    /\ diag = "none"
    /\ log = <<>>
    /\ tokenAtStart = FileAbsent
    /\ messages = <<>>
    /\ failing = {}
    /\ emails = <<>>
    /\ lastDone = NoInvocation
    /\ fetched = <<>>
    /\ outgoing = NoOutgoing
    /\ submission = NoSubmission
    /\ payload = NoMessage
    /\ decoded = NoDecoded
    /\ unread = {}
    /\ calls = <<>>

\* main() that dispatches every command without calling authenticate().
MutMainSkipsAuthenticate ==
    /\ pc = "idle"
    /\ \E c \in Commands, a \in BOOLEAN :
        /\ (c \notin ArgCommands => a)
        /\ command' = c
        /\ argsOk' = a
        /\ pc' = "dispatch"
    /\ outcome' = "running"
    /\ tokenAtStart' = tokenFile
    /\ UNCHANGED <<files, creds, loaded, service, authResult, diag, log, batch, lastDone>>
    /\ UNCHANGED <<sending, pure>>

\* ------------------------------------------------------------------ main()
\* parse_args, GmailAPI(), and the choice between authenticating and skipping it.
Main ==
    /\ pc = "idle"
    /\ \E c \in Commands, a \in BOOLEAN :
        /\ (c \notin ArgCommands => a)
        /\ command' = c
        /\ argsOk' = a
        /\ pc' = IF c \in AuthCommands THEN "dispatch" ELSE "auth_load"
    /\ outcome' = "running"
    /\ tokenAtStart' = tokenFile
    /\ UNCHANGED <<files, creds, loaded, service, authResult, diag, log, batch, lastDone>>
    /\ UNCHANGED <<sending, pure>>

\* ------------------------------------------------------------------ authenticate()
\* token_path.exists() and Credentials.from_authorized_user_file: a file that does
\* not hold the whole JSON record makes the load raise, and nothing catches it.
AuthenticateLoad ==
    /\ pc = "auth_load"
    /\ CASE tokenFile.state = "absent" ->
              /\ creds' = NoCred
              /\ loaded' = [done |-> TRUE, cred |-> NoCred]
              /\ pc' = "auth_check"
              /\ UNCHANGED <<log, outcome, diag>>
         [] tokenFile.state = "complete" ->
              /\ creds' = tokenFile.cred
              /\ loaded' = [done |-> TRUE, cred |-> tokenFile.cred]
              /\ log' = Append(log, "read_token")
              /\ pc' = "auth_check"
              /\ UNCHANGED <<outcome, diag>>
         [] tokenFile.state = "truncated" ->
              /\ log' = Append(log, "read_token")
              /\ Exit("unhandled", "token_unreadable")
              /\ UNCHANGED <<creds, loaded>>
    /\ UNCHANGED <<files, service, authResult, batch, invocation>>
    /\ UNCHANGED <<sending, pure>>

\* AuthenticateCheck with the creds.valid test lost: no Credential is taken as it is.
MutAuthenticateCheckNoValid ==
    /\ pc = "auth_check"
    /\ IF ~IsNone(creds) /\ creds.expired /\ creds.refresh
       THEN pc' = "auth_refresh" /\ UNCHANGED <<authResult, outcome, diag>>
       ELSE IF ~secretFile
            THEN authResult' = "false" /\ Exit("exit1", "config_missing")
            ELSE pc' = "auth_consent" /\ UNCHANGED <<authResult, outcome, diag>>
    /\ UNCHANGED <<files, creds, loaded, service, log, batch, invocation>>
    /\ UNCHANGED <<sending, pure>>

\* AuthenticateCheck with the credentials_path.exists() test lost.
MutAuthenticateCheckNoSecretCheck ==
    /\ pc = "auth_check"
    /\ IF ~IsNone(creds) /\ Valid(creds)
       THEN pc' = "auth_build"
       ELSE IF ~IsNone(creds) /\ creds.expired /\ creds.refresh
            THEN pc' = "auth_refresh"
            ELSE pc' = "auth_consent"
    /\ UNCHANGED <<files, creds, loaded, service, log, batch, invocation,
                   authResult, outcome, diag>>
    /\ UNCHANGED <<sending, pure>>

\* AuthenticateCheck that sends a valid Credential to the save of lines 79-81 too.
MutAuthenticateCheckAlwaysSaves ==
    /\ pc = "auth_check"
    /\ IF ~(IsNone(creds) \/ ~Valid(creds))
       THEN pc' = "auth_open" /\ UNCHANGED <<authResult, outcome, diag>>
       ELSE IF ~IsNone(creds) /\ creds.expired /\ creds.refresh
            THEN pc' = "auth_refresh" /\ UNCHANGED <<authResult, outcome, diag>>
            ELSE IF ~secretFile
                 THEN authResult' = "false" /\ Exit("exit1", "config_missing")
                 ELSE pc' = "auth_consent" /\ UNCHANGED <<authResult, outcome, diag>>
    /\ UNCHANGED <<files, creds, loaded, service, log, batch, invocation>>
    /\ UNCHANGED <<sending, pure>>

\* Lines 48-62: which way the credential sends the call, and the ClientSecret check.
AuthenticateCheck ==
    /\ pc = "auth_check"
    /\ IF ~(IsNone(creds) \/ ~Valid(creds))
       THEN pc' = "auth_build" /\ UNCHANGED <<authResult, outcome, diag>>
       ELSE IF ~IsNone(creds) /\ creds.expired /\ creds.refresh
            THEN pc' = "auth_refresh" /\ UNCHANGED <<authResult, outcome, diag>>
            ELSE IF ~secretFile
                 THEN authResult' = "false" /\ Exit("exit1", "config_missing")
                 ELSE pc' = "auth_consent" /\ UNCHANGED <<authResult, outcome, diag>>
    /\ UNCHANGED <<files, creds, loaded, service, log, batch, invocation>>
    /\ UNCHANGED <<sending, pure>>

\* AuthenticateRefresh with the save of lines 79-81 skipped after a refresh.
MutAuthenticateRefreshNoSave ==
    /\ pc = "auth_refresh"
    /\ \/ /\ issued < MaxIssued
          /\ creds' = NewCred(issued + 1, TRUE)
          /\ issued' = issued + 1
          /\ log' = Append(log, "refresh_ok")
          /\ pc' = "auth_build"
          /\ UNCHANGED <<outcome, diag>>
       \/ /\ log' = Append(log, "refresh_fail")
          /\ Exit("unhandled", "refresh_error")
          /\ UNCHANGED <<creds, issued>>
    /\ UNCHANGED <<tokenFile, secretFile, loaded, service, authResult, batch, invocation>>
    /\ UNCHANGED <<sending, pure>>

\* Line 50, creds.refresh(Request()): the refreshed Credential keeps its refresh
\* token; a rejected refresh raises RefreshError, which nothing catches.
AuthenticateRefresh ==
    /\ pc = "auth_refresh"
    /\ \/ /\ issued < MaxIssued
          /\ creds' = NewCred(issued + 1, TRUE)
          /\ issued' = issued + 1
          /\ log' = Append(log, "refresh_ok")
          /\ pc' = "auth_open"
          /\ UNCHANGED <<outcome, diag>>
       \/ /\ log' = Append(log, "refresh_fail")
          /\ Exit("unhandled", "refresh_error")
          /\ UNCHANGED <<creds, issued>>
    /\ UNCHANGED <<tokenFile, secretFile, loaded, service, authResult, batch, invocation>>
    /\ UNCHANGED <<sending, pure>>

\* AuthenticateConsent with the `return False` of line 77 lost.
MutAuthenticateConsentFallsThrough ==
    /\ pc = "auth_consent"
    /\ \/ /\ issued < MaxIssued
          /\ \E r \in BOOLEAN : creds' = NewCred(issued + 1, r)
          /\ issued' = issued + 1
          /\ log' = Append(log, "consent_ok")
          /\ pc' = "auth_open"
          /\ UNCHANGED <<authResult, outcome, diag>>
       \/ /\ log' = Append(log, "consent_fail")
          /\ pc' = "auth_open"
          /\ UNCHANGED <<creds, issued, authResult, outcome, diag>>
    /\ UNCHANGED <<tokenFile, secretFile, loaded, service, batch, invocation>>
    /\ UNCHANGED <<sending, pure>>

\* Lines 64-77: flow.run_local_server; when it raises, the authorization URL is
\* printed and authenticate() returns False, on which main() exits 1.
AuthenticateConsent ==
    /\ pc = "auth_consent"
    /\ \/ /\ issued < MaxIssued
          /\ \E r \in BOOLEAN : creds' = NewCred(issued + 1, r)
          /\ issued' = issued + 1
          /\ log' = Append(log, "consent_ok")
          /\ pc' = "auth_open"
          /\ UNCHANGED <<authResult, outcome, diag>>
       \/ /\ log' = Append(log, "consent_fail")
          /\ authResult' = "false"
          /\ Exit("exit1", "manual_required")
          /\ UNCHANGED <<creds, issued>>
    /\ UNCHANGED <<tokenFile, secretFile, loaded, service, batch, invocation>>
    /\ UNCHANGED <<sending, pure>>

\* Line 80, open(token_path, 'w'): the file is truncated before anything is written.
AuthenticateOpen ==
    /\ pc = "auth_open"
    /\ tokenFile' = FileTruncated
    /\ log' = Append(log, "open_token")
    /\ pc' = "auth_write"
    /\ UNCHANGED <<secretFile, issued, creds, loaded, service, authResult, outcome,
                   diag, batch, invocation>>
    /\ UNCHANGED <<sending, pure>>

\* Line 81 and the end of the with block: the JSON reaches the file.
AuthenticateWrite ==
    /\ pc = "auth_write"
    /\ tokenFile' = FileWith(creds)
    /\ log' = Append(log, "write_token")
    /\ pc' = "auth_build"
    /\ UNCHANGED <<secretFile, issued, creds, loaded, service, authResult, outcome,
                   diag, batch, invocation>>
    /\ UNCHANGED <<sending, pure>>

\* Lines 83-88: build('gmail', 'v1', credentials=creds); on failure authenticate()
\* returns False and main() exits 1.
AuthenticateBuild ==
    /\ pc = "auth_build"
    /\ \/ /\ service' = TRUE
          /\ authResult' = "true"
          /\ log' = Append(log, "build_ok")
          /\ pc' = "dispatch"
          /\ UNCHANGED <<outcome, diag>>
       \/ /\ log' = Append(log, "build_fail")
          /\ authResult' = "false"
          /\ Exit("exit1", "build_failed")
          /\ UNCHANGED service
    /\ UNCHANGED <<files, creds, loaded, batch, invocation>>
    /\ UNCHANGED <<sending, pure>>


\* ------------------------------------------------------------------ auth-url
\* Lines 421-437: the authorization URL is printed when credentials.json exists.
AuthUrl ==
    /\ pc = "dispatch"
    /\ command = "auth-url"
    /\ IF ~secretFile
       THEN Exit("exit1", "config_missing")
       ELSE Exit("exit0", "none")
    /\ UNCHANGED <<files, creds, loaded, service, authResult, log, batch, invocation>>
    /\ UNCHANGED <<sending, pure>>

\* ------------------------------------------------------------------ auth-code
\* Lines 439-450: --code is required; from_client_secrets_file is called with no
\* exists() check and outside the try, so a missing file raises FileNotFoundError.
AuthCodeFlow ==
    /\ pc = "dispatch"
    /\ command = "auth-code"
    /\ IF ~argsOk
       THEN Exit("exit1", "missing_args")
       ELSE IF ~secretFile
            THEN Exit("unhandled", "secret_unreadable")
            ELSE pc' = "code_exchange" /\ UNCHANGED <<outcome, diag>>
    /\ UNCHANGED <<files, creds, loaded, service, authResult, log, batch, invocation>>
    /\ UNCHANGED <<sending, pure>>

\* AuthCodeExchange with the rejection swallowed before the save.
MutAuthCodeExchangeIgnoresRejection ==
    /\ pc = "code_exchange"
    /\ \/ /\ issued < MaxIssued
          /\ \E r \in BOOLEAN : creds' = NewCred(issued + 1, r)
          /\ issued' = issued + 1
          /\ log' = Append(log, "exchange_ok")
          /\ pc' = "code_open"
          /\ UNCHANGED <<outcome, diag>>
       \/ /\ log' = Append(log, "exchange_rejected")
          /\ pc' = "code_open"
          /\ UNCHANGED <<creds, issued, outcome, diag>>
    /\ UNCHANGED <<tokenFile, secretFile, loaded, service, authResult, batch, invocation>>
    /\ UNCHANGED <<sending, pure>>

\* Lines 452-454 and 463-465: flow.fetch_token(code); a rejected code raises, the
\* except prints "Authentication failed" and exits 1.
AuthCodeExchange ==
    /\ pc = "code_exchange"
    /\ \/ /\ issued < MaxIssued
          /\ \E r \in BOOLEAN : creds' = NewCred(issued + 1, r)
          /\ issued' = issued + 1
          /\ log' = Append(log, "exchange_ok")
          /\ pc' = "code_open"
          /\ UNCHANGED <<outcome, diag>>
       \/ /\ log' = Append(log, "exchange_rejected")
          /\ Exit("exit1", "authentication_failed")
          /\ UNCHANGED <<creds, issued>>
    /\ UNCHANGED <<tokenFile, secretFile, loaded, service, authResult, batch, invocation>>
    /\ UNCHANGED <<sending, pure>>

\* Line 457, open(token_path, 'w').
AuthCodeOpen ==
    /\ pc = "code_open"
    /\ tokenFile' = FileTruncated
    /\ log' = Append(log, "open_token")
    /\ pc' = "code_write"
    /\ UNCHANGED <<secretFile, issued, creds, loaded, service, authResult, outcome,
                   diag, batch, invocation>>
    /\ UNCHANGED <<sending, pure>>

\* AuthCodeWrite that reports success and leaves the file as it found it.
MutAuthCodeWriteStale ==
    /\ pc = "code_write"
    /\ tokenFile' = tokenAtStart
    /\ log' = Append(log, "write_token")
    /\ Exit("exit0", "none")
    /\ UNCHANGED <<secretFile, issued, creds, loaded, service, authResult,
                   batch, invocation>>
    /\ UNCHANGED <<sending, pure>>

\* Lines 458-461: the JSON reaches the file and the command ends with status 0.
AuthCodeWrite ==
    /\ pc = "code_write"
    /\ tokenFile' = FileWith(creds)
    /\ log' = Append(log, "write_token")
    /\ Exit("exit0", "none")
    /\ UNCHANGED <<secretFile, issued, creds, loaded, service, authResult,
                   batch, invocation>>
    /\ UNCHANGED <<sending, pure>>

\* ------------------------------------------------------------------ read commands
\* The message resource of messages().get: id, threadId, snippet and a payload
\* that has either child parts or a body of its own; body.data may be missing.
TextPlain == "text/plain"
TextHtml == "text/html"
TextTypes == {TextPlain, TextHtml}

NoBody == [hasData |-> FALSE, data |-> <<>>]
Data(d) == [hasData |-> TRUE, data |-> d]
Part(mt, b) == [mimeType |-> mt, body |-> b]
Leaf(mt, h, b) ==
    [mimeType |-> mt, headers |-> h, hasParts |-> FALSE, parts |-> <<>>, body |-> b]
Multipart(mt, h, ps) ==
    [mimeType |-> mt, headers |-> h, hasParts |-> TRUE, parts |-> ps, body |-> NoBody]
Header(n, v) == [name |-> n, value |-> v]
Message(id, pl) == [id |-> id, threadId |-> id, snippet |-> "snippet", payload |-> pl]

\* header['name'].lower() on the header names of the model.
Lower(n) ==
    CASE n \in {"Subject", "SUBJECT", "subject"} -> "subject"
      [] n \in {"From", "FROM", "from"} -> "from"
      [] n \in {"To", "TO", "to"} -> "to"
      [] n \in {"Date", "DATE", "date"} -> "date"
      [] n = "Content-Type" -> "content-type"
      [] n = "MIME-Version" -> "mime-version"
      [] n = "In-Reply-To" -> "in-reply-to"
      [] n = "References" -> "references"
      [] OTHER -> n

\* Python's None in a header field of email_data.
NoValue == "<None>"

\* Lines 217-226: every header is looked at in turn, so the last one of a name
\* is the one that stays.
RECURSIVE HeaderValue(_, _)
HeaderValue(h, key) ==
    IF h = <<>> THEN NoValue
    ELSE IF Lower(h[Len(h)].name) = key THEN h[Len(h)].value
         ELSE HeaderValue(SubSeq(h, 1, Len(h) - 1), key)

\* data = part['body']['data']; base64.urlsafe_b64decode(data).decode('utf-8'):
\* a missing key, bad base64 and bytes that are not UTF-8 each raise.
DecodeData(b) ==
    IF ~b.hasData THEN [ok |-> FALSE, err |-> "KeyError", text |-> <<>>]
    ELSE LET r == B64Decode(b.data) IN
         IF ~r.ok THEN [ok |-> FALSE, err |-> "binascii.Error", text |-> <<>>]
         ELSE LET u == Utf8Decode(r.bytes) IN
              IF ~u.ok THEN [ok |-> FALSE, err |-> "UnicodeDecodeError", text |-> <<>>]
              ELSE [ok |-> TRUE, err |-> "none", text |-> u.text]

\* The part at which `for part in payload['parts']` breaks: the first one that is
\* text/plain or text/html; 0 when the loop runs to its end.
FirstTextPart(ps) ==
    IF \E i \in DOMAIN ps : ps[i].mimeType \in TextTypes
    THEN CHOOSE i \in DOMAIN ps :
            /\ ps[i].mimeType \in TextTypes
            /\ \A j \in 1 .. (i - 1) : ps[j].mimeType \notin TextTypes
    ELSE 0

\* _get_message_body with only the text/plain branch of the loop.
MutGetMessageBodyPlainOnly(pl) ==
    LET plain == {i \in DOMAIN pl.parts : pl.parts[i].mimeType = TextPlain} IN
    IF pl.hasParts
    THEN IF plain = {} THEN [ok |-> TRUE, err |-> "none", text |-> <<>>]
         ELSE DecodeData(pl.parts[CHOOSE i \in plain : \A j \in plain : i <= j].body)
    ELSE IF pl.mimeType = TextPlain THEN DecodeData(pl.body)
         ELSE [ok |-> TRUE, err |-> "none", text |-> <<>>]

\* _get_message_body, lines 233-255.
GetMessageBody(pl) ==
    IF pl.hasParts
    THEN LET i == FirstTextPart(pl.parts) IN
         IF i = 0 THEN [ok |-> TRUE, err |-> "none", text |-> <<>>]
         ELSE DecodeData(pl.parts[i].body)
    ELSE IF pl.mimeType \in TextTypes THEN DecodeData(pl.body)
         ELSE [ok |-> TRUE, err |-> "none", text |-> <<>>]

\* _parse_email, lines 200-231: ok is FALSE when _get_message_body raised, and
\* then no record is returned at all.  'is_html' is set at line 214 and nowhere else.
ParseEmail(msg) ==
    LET b == GetMessageBody(msg.payload)
        h == msg.payload.headers
    IN  [ok |-> b.ok,
         err |-> b.err,
         email |-> [id |-> msg.id,
                    thread_id |-> msg.threadId,
                    snippet |-> msg.snippet,
                    date |-> HeaderValue(h, "date"),
                    from |-> HeaderValue(h, "from"),
                    to |-> HeaderValue(h, "to"),
                    subject |-> HeaderValue(h, "subject"),
                    body |-> b.text,
                    is_html |-> FALSE]]

\* base64url texts: "SGVsbG8=" (Hello), "SGk=" (Hi), "SGk" (bad padding),
\* "_w==" (the byte 255, not UTF-8).
B64Hello == <<18, 6, 21, 44, 27, 6, 60, Pad>>
B64Hi == <<18, 6, 36, Pad>>
B64BadPadding == <<18, 6, 36>>
B64NotUtf8 == <<63, 48, Pad, Pad>>

\* What a get of the batch may return: a readable message and the three ways of
\* an unreadable body.
BatchPayloads ==
    {Leaf(TextPlain, <<Header("Subject", "s")>>, Data(B64Hello)),
     Leaf(TextPlain, <<>>, NoBody),
     Leaf(TextHtml, <<>>, Data(B64BadPadding)),
     Multipart("multipart/alternative", <<>>, <<Part(TextPlain, Data(B64NotUtf8))>>)}

\* get_unread_emails (unread) and get_emails_by_filter (filter, customer-support,
\* investor-emails): the list call.  An HttpError is caught by the except around
\* the whole operation, which returns []; main() prints the count and ends.
ReadList ==
    /\ pc = "dispatch"
    /\ command \in ReadCommands
    /\ log' = Append(log, "list")
    /\ \/ /\ \E m \in Listings(MsgIds), f \in SUBSET MsgIds :
                /\ messages' = m
                /\ failing' = f
          /\ emails' = <<>>
          /\ pc' = "read_loop"
          /\ UNCHANGED <<outcome, diag>>
       \/ /\ emails' = <<>>
          /\ Exit("exit0", "api_error")
          /\ UNCHANGED <<messages, failing>>
    /\ UNCHANGED <<files, creds, loaded, service, authResult, invocation, fetched>>
    /\ UNCHANGED <<sending, pure>>

\* ReadStep that puts each Email at the front of the list.
MutReadStepPrepends ==
    /\ pc = "read_loop"
    /\ IF Count(log, "get") < Len(messages)
       THEN LET id == messages[Count(log, "get") + 1] IN
            /\ log' = Append(log, "get")
            /\ IF id \in failing
               THEN /\ emails' = <<>>
                    /\ Exit("exit0", "api_error")
                    /\ UNCHANGED fetched
               ELSE \E pl \in BatchPayloads :
                      LET msg == Message(id, pl)
                          r == ParseEmail(msg)
                      IN  /\ fetched' = Append(fetched, msg)
                          /\ IF r.ok
                             THEN /\ emails' = <<r.email>> \o emails
                                  /\ UNCHANGED <<pc, outcome, diag>>
                             ELSE /\ Exit("unhandled", "decode_error")
                                  /\ UNCHANGED emails
       ELSE /\ Exit("exit0", "none")
            /\ UNCHANGED <<log, emails, fetched>>
    /\ UNCHANGED <<files, creds, loaded, service, authResult, messages, failing,
                   invocation>>
    /\ UNCHANGED <<sending, pure>>

\* One turn of `for message in messages`: get, _parse_email, append; after the last
\* one the list is returned.  A get that raises HttpError leaves the loop for the
\* except, which returns [].  What _parse_email raises is no HttpError: it leaves
\* the operation and main() uncaught.
ReadStep ==
    /\ pc = "read_loop"
    /\ IF Count(log, "get") < Len(messages)
       THEN LET id == messages[Count(log, "get") + 1] IN
            /\ log' = Append(log, "get")
            /\ IF id \in failing
               THEN /\ emails' = <<>>
                    /\ Exit("exit0", "api_error")
                    /\ UNCHANGED fetched
               ELSE \E pl \in BatchPayloads :
                      LET msg == Message(id, pl)
                          r == ParseEmail(msg)
                      IN  /\ fetched' = Append(fetched, msg)
                          /\ IF r.ok
                             THEN /\ emails' = Append(emails, r.email)
                                  /\ UNCHANGED <<pc, outcome, diag>>
                             ELSE /\ Exit("unhandled", "decode_error")
                                  /\ UNCHANGED emails
       ELSE /\ Exit("exit0", "none")
            /\ UNCHANGED <<log, emails, fetched>>
    /\ UNCHANGED <<files, creds, loaded, service, authResult, messages, failing,
                   invocation>>
    /\ UNCHANGED <<sending, pure>>

\* ------------------------------------------------------------------ send
\* An OutgoingMessage: the arguments of send_email.  reply_to_id is None, or a
\* string; `if reply_to_id` takes None and "" alike as absent.
Truthy(x) == x # NoValue /\ x # ""

\* Lines 151-164: the MIME message.  MIMEMultipart and MIMEText put Content-Type
\* and MIME-Version first; the headers set here follow in the order they are set.
MimeMessage(o) ==
    LET own == <<Header("to", o.to), Header("subject", o.subject)>>
               \o (IF Truthy(o.reply_to_id)
                   THEN <<Header("In-Reply-To", o.reply_to_id),
                          Header("References", o.reply_to_id)>>
                   ELSE <<>>)
    IN  IF o.is_html
        THEN [mimeType |-> "multipart/alternative",
              headers |-> <<Header("Content-Type", "multipart/alternative"),
                            Header("MIME-Version", "1.0")>> \o own,
              isMultipart |-> TRUE,
              parts |-> <<[mimeType |-> TextHtml, text |-> o.body]>>,
              text |-> <<>>]
        ELSE [mimeType |-> TextPlain,
              headers |-> <<Header("Content-Type", TextPlain),
                            Header("MIME-Version", "1.0")>> \o own,
              isMultipart |-> FALSE,
              parts |-> <<>>,
              text |-> o.body]

\* send_email without the `if reply_to_id` of line 169: the thread id always goes.
MutSendEmailAlwaysThreads(o) ==
    [built |-> TRUE,
     message |-> MimeMessage(o),
     send_message |-> [raw |-> [base64url |-> MimeMessage(o)],
                       hasThreadId |-> TRUE,
                       threadId |-> o.reply_to_id]]

\* Lines 166-170: send_message = {'raw': ...} and, for a reply, 'threadId'.  raw
\* stands for the base64url text of message.as_bytes().
SendEmail(o) ==
    [built |-> TRUE,
     message |-> MimeMessage(o),
     send_message |-> [raw |-> [base64url |-> MimeMessage(o)],
                       hasThreadId |-> Truthy(o.reply_to_id),
                       threadId |-> IF Truthy(o.reply_to_id) THEN o.reply_to_id
                                    ELSE NoValue]]

\* Lines 382-400 with send_email: --to, --subject and --body are required, --html
\* chooses the form, no reply_to_id is passed; one send call, whose HttpError
\* gives success False and exit 1.
Send ==
    /\ pc = "dispatch"
    /\ command = "send"
    /\ IF ~argsOk
       THEN Exit("exit1", "missing_args") /\ UNCHANGED <<log, sending>>
       ELSE /\ \E h \in BOOLEAN :
                 /\ outgoing' = [to |-> "a@x", subject |-> "s", body |-> <<72, 105>>,
                                 is_html |-> h, reply_to_id |-> NoValue]
                 /\ submission' = SendEmail(outgoing')
            /\ log' = Append(log, "send")
            /\ \/ Exit("exit0", "none")
               \/ Exit("exit1", "api_error")
    /\ UNCHANGED <<files, creds, loaded, service, authResult, batch, invocation>>
    /\ UNCHANGED pure

\* ------------------------------------------------------------------ mark-read
\* Lines 402-411 with mark_as_read: one modify call removing the UNREAD label.
MarkRead ==
    /\ pc = "dispatch"
    /\ command = "mark-read"
    /\ IF ~argsOk
       THEN Exit("exit1", "missing_args") /\ UNCHANGED log
       ELSE /\ log' = Append(log, "modify")
            /\ \/ Exit("exit0", "none")
               \/ Exit("exit1", "api_error")
    /\ UNCHANGED <<files, creds, loaded, service, authResult, batch, invocation>>
    /\ UNCHANGED <<sending, pure>>

\* ------------------------------------------------------------------ profile
\* setup-check and profile with get_profile_info: None on HttpError, exit 1.
Profile ==
    /\ pc = "dispatch"
    /\ command \in ProfileCommands
    /\ log' = Append(log, "get_profile")
    /\ \/ Exit("exit0", "none")
       \/ Exit("exit1", "api_error")
    /\ UNCHANGED <<files, creds, loaded, service, authResult, batch, invocation>>
    /\ UNCHANGED <<sending, pure>>

\* ------------------------------------------------------------------ environment
\* The process is killed (power loss, SIGKILL) wherever it stands.
Kill ==
    /\ pc \notin {"idle", "done"}
    /\ Exit("killed", diag)
    /\ UNCHANGED <<files, creds, loaded, service, authResult, log, batch, invocation>>
    /\ UNCHANGED <<sending, pure>>

\* The process is gone; its memory with it.  The next invocation starts afresh.
ProcessEnd ==
    /\ pc = "done"
    /\ lastDone' = [command |-> command, outcome |-> outcome, cred |-> creds]
    /\ pc' = "idle"
    /\ command' = "none"
    /\ argsOk' = TRUE
    /\ creds' = NoCred
    /\ loaded' = NotLoaded
    /\ service' = FALSE
    /\ authResult' = "none"
    /\ outcome' = "none"
    /\ diag' = "none"
    /\ log' = <<>>
    /\ tokenAtStart' = tokenFile
    /\ messages' = <<>>
    /\ failing' = {}
    /\ emails' = <<>>
    /\ fetched' = <<>>
    /\ outgoing' = NoOutgoing
    /\ submission' = NoSubmission
    /\ UNCHANGED files
    /\ UNCHANGED pure

\* Time passes between invocations: the persisted access token reaches its expiry.
Expire ==
    /\ pc = "idle"
    /\ tokenFile.state = "complete"
    /\ ~tokenFile.cred.expired
    /\ tokenFile' = FileWith([tokenFile.cred EXCEPT !.expired = TRUE])
    /\ tokenAtStart' = tokenFile'
    /\ UNCHANGED <<secretFile, issued, command, argsOk, pc, creds, loaded, service,
                   authResult, outcome, diag, log, batch, lastDone>>
    /\ UNCHANGED <<sending, pure>>

\* The operator places or removes credentials.json between invocations.
OperatorSecret ==
    /\ pc = "idle"
    /\ secretFile' = ~secretFile
    /\ UNCHANGED <<tokenFile, issued, command, argsOk, pc, creds, loaded, service,
                   authResult, outcome, diag, log, batch, tokenAtStart, lastDone>>
    /\ UNCHANGED <<sending, pure>>

Next ==
    \/ Main
    \/ AuthenticateLoad
    \/ AuthenticateCheck
    \/ AuthenticateRefresh
    \/ AuthenticateConsent
    \/ AuthenticateOpen
    \/ AuthenticateWrite
    \/ AuthenticateBuild
    \/ AuthUrl
    \/ AuthCodeFlow
    \/ AuthCodeExchange
    \/ AuthCodeOpen
    \/ AuthCodeWrite
    \/ ReadList
    \/ ReadStep
    \/ Send
    \/ MarkRead
    \/ Profile
    \/ Kill
    \/ ProcessEnd
    \/ Expire
    \/ OperatorSecret

Spec == Init /\ [][Next]_vars


\* ------------------------------------------------------------------ the operations on their own
\* No invocation runs: the variables of main() are as a finished process leaves them.
process == <<files, command, argsOk, creds, loaded, service, authResult, outcome,
             diag, log, tokenAtStart, lastDone, batch>>

AtRest ==
    /\ tokenFile = FileAbsent
    /\ secretFile = TRUE
    /\ issued = 0
    /\ command = "none"
    /\ argsOk = TRUE
    /\ creds = NoCred
    /\ loaded = NotLoaded
    /\ service = FALSE
    /\ authResult = "none"
    /\ outcome = "none"
    /\ diag = "none"
    /\ log = <<>>
    /\ tokenAtStart = FileAbsent
    /\ messages = <<>>
    /\ failing = {}
    /\ emails = <<>>
    /\ lastDone = NoInvocation
    /\ fetched = <<>>

\* ---- _parse_email over the payloads of the model
\* Child parts of a multipart payload.
MaxParts == 2

PartTypes == {TextPlain, TextHtml, "image/png"}
Bodies == {NoBody, Data(B64Hello), Data(B64Hi), Data(B64BadPadding), Data(B64NotUtf8)}
Parts == {Part(mt, b) : mt \in PartTypes, b \in Bodies}
HeaderLists ==
    {<<>>,
     <<Header("Subject", "s"), Header("FROM", "a@x")>>,
     <<Header("subject", "s"), Header("Content-Type", TextPlain), Header("Subject", "t")>>}
PartLists == UNION {[1 .. k -> Parts] : k \in 0 .. MaxParts}
Payloads ==
    {Leaf(mt, h, b) : mt \in PartTypes, h \in HeaderLists, b \in Bodies}
        \cup {Multipart("multipart/alternative", h, ps) : h \in HeaderLists, ps \in PartLists}

InitDecode ==
    /\ AtRest
    /\ pc = "decode"
    /\ payload \in {Message(1, pl) : pl \in Payloads}
    /\ decoded = NoDecoded
    /\ outgoing = NoOutgoing
    /\ submission = NoSubmission
    /\ unread = {}
    /\ calls = <<>>

\* email_data = self._parse_email(msg)
Decode ==
    /\ pc = "decode"
    /\ decoded' = [done |-> TRUE, result |-> ParseEmail(payload)]
    /\ pc' = "decoded"
    /\ UNCHANGED <<process, sending, payload, unread, calls>>

SpecDecode == InitDecode /\ [][Decode]_vars

\* ---- send_email over the OutgoingMessages of the model
\* Bodies and subjects are not empty, as main() requires of --body and --subject:
\* "Hello", "He" with e acute, "<b>", a line feed.
OutgoingBodies == {<<72, 101, 108, 108, 111>>, <<72, 233>>, <<60, 98, 62>>, <<10>>}
Outgoings ==
    [to : {"a@x"}, subject : {"s", "Re: s"}, body : OutgoingBodies,
     is_html : BOOLEAN, reply_to_id : {NoValue, "", "T1", "T2"}]

InitEncode ==
    /\ AtRest
    /\ pc = "encode"
    /\ outgoing \in Outgoings
    /\ submission = NoSubmission
    /\ payload = NoMessage
    /\ decoded = NoDecoded
    /\ unread = {}
    /\ calls = <<>>

\* Lines 150-170 of send_email: the message and the send_message body.
Encode ==
    /\ pc = "encode"
    /\ submission' = SendEmail(outgoing)
    /\ pc' = "encoded"
    /\ UNCHANGED <<process, outgoing, pure>>

\* The sent message as messages().get gives it back: the headers as they were
\* set, each text body as base64url of its UTF-8 bytes in body.data, the children
\* of a multipart message as its parts.  This is the shape _parse_email reads.
AsPayload(m) ==
    IF m.isMultipart
    THEN Multipart(m.mimeType, m.headers,
                   [i \in DOMAIN m.parts |->
                       Part(m.parts[i].mimeType,
                            Data(B64Encode(Utf8Encode(m.parts[i].text))))])
    ELSE Leaf(m.mimeType, m.headers, Data(B64Encode(Utf8Encode(m.text))))

\* _parse_email of the message that send_email built.
DecodeSent ==
    /\ pc = "encoded"
    /\ payload' = Message(1, AsPayload(submission.message))
    /\ decoded' = [done |-> TRUE, result |-> ParseEmail(payload')]
    /\ pc' = "decoded"
    /\ UNCHANGED <<process, sending, unread, calls>>

NextEncode == Encode \/ DecodeSent

SpecEncode == InitEncode /\ [][NextEncode]_vars

\* ---- mark_as_read against a mailbox
\* mark_as_read calls in one run.
MaxCalls == 3

InitMarkRead ==
    /\ AtRest
    /\ pc = "mark_read"
    /\ unread \in SUBSET MsgIds
    /\ calls = <<>>
    /\ outgoing = NoOutgoing
    /\ submission = NoSubmission
    /\ payload = NoMessage
    /\ decoded = NoDecoded

\* The body of the modify call, lines 190-194.
ModifyRequest(id) == [id |-> id, removeLabelIds |-> {"UNREAD"}]

\* mark_as_read that gives False for a message that was already read.
MutMarkAsReadOnce ==
    /\ pc = "mark_read"
    /\ Len(calls) < MaxCalls
    /\ \E id \in MsgIds :
         \/ /\ unread' = unread \ {id}
            /\ calls' = Append(calls, [request |-> ModifyRequest(id), raised |-> FALSE,
                                       result |-> id \in unread, after |-> unread'])
         \/ /\ calls' = Append(calls, [request |-> ModifyRequest(id), raised |-> TRUE,
                                       result |-> FALSE, after |-> unread])
            /\ UNCHANGED unread
    /\ UNCHANGED <<process, pc, sending, payload, decoded>>

\* mark_as_read, lines 187-198: the mailbox takes the label off the message (and
\* accepts the removal of a label that is not on it), or the call raises
\* HttpError and False is returned.
MarkAsRead ==
    /\ pc = "mark_read"
    /\ Len(calls) < MaxCalls
    /\ \E id \in MsgIds :
         \/ /\ unread' = unread \ {id}
            /\ calls' = Append(calls, [request |-> ModifyRequest(id), raised |-> FALSE,
                                       result |-> TRUE, after |-> unread'])
         \/ /\ calls' = Append(calls, [request |-> ModifyRequest(id), raised |-> TRUE,
                                       result |-> FALSE, after |-> unread])
            /\ UNCHANGED unread
    /\ UNCHANGED <<process, pc, sending, payload, decoded>>

SpecMarkRead == InitMarkRead /\ [][MarkAsRead]_vars

\* ================================================================== claims
\* What the load of line 45 found.
LoadedValid ==
    loaded.done /\ ~IsNone(loaded.cred) /\ loaded.cred.token /\ ~loaded.cred.expired

LoadedExpiredRefreshable ==
    loaded.done /\ ~IsNone(loaded.cred) /\ loaded.cred.expired /\ loaded.cred.refresh

\* Nothing to use as it is and nothing to refresh: no file, or a Credential that is
\* not valid and is not (expired with a refresh_token).
LoadedUnusable ==
    /\ loaded.done
    /\ \/ IsNone(loaded.cred)
       \/ /\ ~(loaded.cred.token /\ ~loaded.cred.expired)
          /\ ~(loaded.cred.expired /\ loaded.cred.refresh)

\* The position of the first e in s, 0 if there is none.
First(s, e) == IF Has(s, e) THEN CHOOSE i \in DOMAIN s :
                                   s[i] = e /\ \A j \in 1 .. (i - 1) : s[j] # e
               ELSE 0

\* The previous invocation was an auth-code whose exchange was accepted.
PrevAccepted == lastDone.command = "auth-code" /\ lastDone.outcome = "exit0"

\* C1 as stated: whenever the loaded Credential is valid and unexpired,
\* authenticate() succeeds, and with no token-endpoint call.
C1_ValidAlwaysSucceeds ==
    (LoadedValid /\ authResult # "none") =>
        (authResult = "true" /\ ~HasAny(log, TokenEndpointEvents))

\* C1 amended: whenever the loaded Credential is valid and unexpired,
\* authenticate() makes no token-endpoint call (no refresh, no consent flow, no
\* code exchange) and does not write the token file; it returns success unless
\* build() of the service fails, and then it returns failure.
C1_ValidNoTokenEndpointCall ==
    LoadedValid =>
        /\ ~HasAny(log, TokenEndpointEvents)
        /\ ~HasAny(log, {"open_token", "write_token"})
        /\ tokenFile = tokenAtStart
        /\ (authResult = "none" => outcome # "unhandled")
        /\ (authResult = "false" => (diag = "build_failed" /\ Has(log, "build_fail")))
        /\ (pc = "dispatch" => authResult = "true")

C1_Witness ==
    LoadedValid /\ authResult = "true" /\ service /\ log = <<"read_token", "build_ok">>

\* C2: with an expired Credential that has a refresh_token loaded, authenticate()
\* calls the refresh exchange at most once, and whenever it returns success the
\* refresh succeeded and the refreshed Credential was written to the token file
\* before the return.
C2_RefreshOnceAndPersisted ==
    LoadedExpiredRefreshable =>
        /\ Count(log, "refresh_ok") + Count(log, "refresh_fail") <= 1
        /\ (authResult = "true" =>
              /\ Has(log, "refresh_ok")
              /\ creds.id # loaded.cred.id
              /\ Valid(creds)
              /\ tokenFile = FileWith(creds)
              /\ First(log, "refresh_ok") < First(log, "write_token")
              /\ First(log, "write_token") < First(log, "build_ok"))

C2_Witness ==
    /\ LoadedExpiredRefreshable
    /\ authResult = "true"
    /\ log = <<"read_token", "refresh_ok", "open_token", "write_token", "build_ok">>

\* C3: when the refresh exchange fails, authenticate() goes on with no Credential
\* to the consent path in the same call; the invocation does not end with an
\* unhandled failure.
C3_RefreshFailureFallsThrough ==
    Has(log, "refresh_fail") =>
        /\ outcome # "unhandled"
        /\ IsNone(creds)
        /\ (pc = "done" /\ outcome # "killed" =>
              \/ diag \in {"config_missing", "manual_required"}
              \/ Has(log, "consent_ok"))

\* C4: a process that is killed leaves the token file holding the whole previous
\* Credential (the file as the invocation found it) or the whole new one, never
\* an empty or partly written record.
C4_AtomicPersist ==
    outcome = "killed" =>
        \/ tokenFile = tokenAtStart
        \/ (~IsNone(creds) /\ tokenFile = FileWith(creds))

\* C5: a batch read over N listed ids of which exactly one cannot be fetched
\* returns the N-1 Emails of the others, in order, and reports one failure.
Fetchable(id) == id \notin failing

\* The ids of a list of Emails, in order.
IdsOf(es) == [i \in DOMAIN es |-> es[i].id]

C5_PartialFailure ==
    (/\ command \in ReadCommands
     /\ pc = "done"
     /\ outcome # "killed"
     /\ Cardinality({i \in DOMAIN messages : messages[i] \in failing}) = 1) =>
        /\ Len(emails) = Len(messages) - 1
        /\ IdsOf(emails) = SelectSeq(messages, Fetchable)
        /\ diag = "api_error"

\* C6: with no usable Credential loaded and credentials.json absent,
\* authenticate() returns failure with the configuration-missing message and the
\* command exits 1; no consent flow is started, no token-endpoint call is made,
\* the service is not built and the token file is as the invocation found it.
C6_ConfigurationMissing ==
    (LoadedUnusable /\ ~secretFile /\ pc # "auth_check" /\ outcome # "killed") =>
        /\ authResult = "false"
        /\ pc = "done"
        /\ outcome = "exit1"
        /\ diag = "config_missing"
        /\ ~service
        /\ ~HasAny(log, TokenEndpointEvents \cup MailboxEvents)
        /\ ~HasAny(log, {"build_ok", "build_fail", "open_token", "write_token"})
        /\ tokenFile = tokenAtStart

C6_Witness ==
    /\ LoadedUnusable
    /\ ~secretFile
    /\ ~IsNone(loaded.cred)
    /\ outcome = "exit1"
    /\ diag = "config_missing"

\* C7: wherever credentials.json is needed and absent (the consent path of
\* authenticate(), auth-url, auth-code with its --code given), the command ends
\* with the configuration error and status 1, not with an unhandled exception.
NeedsSecret ==
    \/ command = "auth-url"
    \/ command = "auth-code" /\ argsOk
    \/ command \notin AuthCommands /\ LoadedUnusable

C7_SecretAbsenceIsConfigError ==
    (NeedsSecret /\ ~secretFile /\ pc = "done" /\ outcome # "killed") =>
        (outcome = "exit1" /\ diag = "config_missing")

\* C8: when the interactive consent flow cannot run, authenticate() prints the
\* authorization URL with the instruction to run auth-code, returns failure and
\* the command exits 1; no Credential is persisted, the service is not built and
\* no mailbox call is made in that invocation.
C8_HeadlessFallback ==
    Has(log, "consent_fail") =>
        /\ authResult = "false"
        /\ pc = "done"
        /\ outcome = "exit1"
        /\ diag = "manual_required"
        /\ ~service
        /\ tokenFile = tokenAtStart
        /\ ~HasAny(log, {"open_token", "write_token", "build_ok", "consent_ok"})
        /\ ~HasAny(log, MailboxEvents)

C8_Witness ==
    Has(log, "consent_fail") /\ outcome = "exit1" /\ tokenAtStart.state = "complete"

\* C9 as stated: after an auth-code whose exchange was accepted, the next
\* authenticate() succeeds and makes no refresh or consent exchange.
C9_NextAuthenticateSucceeds ==
    (PrevAccepted /\ command \in Commands \ AuthCommands /\ outcome # "killed") =>
        /\ ~HasAny(log, TokenEndpointEvents)
        /\ authResult # "false"
        /\ (authResult = "none" => outcome # "unhandled")

\* C9 amended: auth-code runs from any state of the token file; when its exchange
\* is accepted the command ends with the new, valid Credential in the token file.
\* The next authenticate(), if that Credential has not expired by then, loads it,
\* makes no refresh or consent exchange and returns success unless build() fails.
C9_ManualExchangePersists ==
    /\ (command = "auth-code" /\ outcome = "exit0") =>
          /\ Has(log, "exchange_ok")
          /\ Valid(creds)
          /\ creds.id = issued
          /\ tokenFile = FileWith(creds)
    /\ (PrevAccepted /\ command = "none") =>
          (tokenFile.state = "complete" /\ tokenFile.cred.id = lastDone.cred.id)
    /\ (/\ PrevAccepted
        /\ command \in Commands \ AuthCommands
        /\ tokenAtStart = FileWith(lastDone.cred)) =>
          /\ (loaded.done => loaded.cred = lastDone.cred)
          /\ ~HasAny(log, TokenEndpointEvents)
          /\ (authResult = "none" => outcome # "unhandled")
          /\ (authResult = "false" => diag = "build_failed")
          /\ (pc = "dispatch" => authResult = "true")

\* The exchange was made with a valid Credential already on disk (not from
\* AWAITING_MANUAL_CODE), and the next invocation authenticated with the new one.
C9_Witness ==
    /\ PrevAccepted
    /\ lastDone.cred.id = 2
    /\ command = "unread"
    /\ authResult = "true"
    /\ creds = lastDone.cred
    /\ log = <<"read_token", "build_ok">>

\* C10: when the authorization-code exchange is rejected, auth-code prints the
\* authentication failure and exits 1, and the token file is exactly as it was:
\* absent stays absent, an existing file is neither opened for writing nor changed.
C10_RejectedCodeLeavesToken ==
    Has(log, "exchange_rejected") =>
        /\ command = "auth-code"
        /\ pc = "done"
        /\ outcome = "exit1"
        /\ diag = "authentication_failed"
        /\ tokenFile = tokenAtStart
        /\ ~HasAny(log, {"open_token", "write_token", "exchange_ok"})

C10_Witness ==
    /\ Has(log, "exchange_rejected")
    /\ outcome = "exit1"
    /\ tokenAtStart.state = "complete"
    /\ tokenFile = tokenAtStart


\* C11: in a batch read the messages are fetched in the order of the listing and,
\* as long as no call has failed, the list of Emails is the parse of the fetched
\* messages position by position; a read that ends with no failure returns one
\* Email per listed id, in the listed order.
C11_OrderPreserved ==
    command \in ReadCommands =>
        /\ Len(fetched) <= Len(messages)
        /\ \A i \in DOMAIN fetched : fetched[i].id = messages[i]
        /\ (diag = "none" =>
              /\ Len(emails) = Len(fetched)
              /\ \A i \in DOMAIN emails : emails[i] = ParseEmail(fetched[i]).email)
        /\ (pc = "done" /\ outcome = "exit0" /\ diag = "none" =>
              IdsOf(emails) = messages)

C11_Witness ==
    /\ command = "unread"
    /\ outcome = "exit0"
    /\ diag = "none"
    /\ messages = <<2, 1>>
    /\ IdsOf(emails) = <<2, 1>>

\* C12: for a multipart payload the body is that of the first text/plain direct
\* child wherever it stands, and of the first text/html direct child only when
\* there is no text/plain one.
PreferredPart(ps) ==
    LET plain == {i \in DOMAIN ps : ps[i].mimeType = TextPlain}
        html == {i \in DOMAIN ps : ps[i].mimeType = TextHtml}
    IN  IF plain # {} THEN CHOOSE i \in plain : \A j \in plain : i <= j
        ELSE IF html # {} THEN CHOOSE i \in html : \A j \in html : i <= j
        ELSE 0

C12_PlainPreferred ==
    (/\ pc = "decoded"
     /\ decoded.done
     /\ payload.payload.hasParts
     /\ PreferredPart(payload.payload.parts) # 0
     /\ DecodeData(payload.payload.parts[PreferredPart(payload.payload.parts)].body).ok) =>
        /\ decoded.result.ok
        /\ decoded.result.email.body =
              DecodeData(payload.payload.parts[PreferredPart(payload.payload.parts)].body).text

\* C13: is_html of the Email is true exactly when the body was taken from a
\* text/html part, and false when it was taken from a text/plain part.
ChosenType(pl) ==
    IF pl.hasParts
    THEN IF FirstTextPart(pl.parts) = 0 THEN "none"
         ELSE pl.parts[FirstTextPart(pl.parts)].mimeType
    ELSE IF pl.mimeType \in TextTypes THEN pl.mimeType ELSE "none"

C13_HtmlRecorded ==
    (/\ pc = "decoded"
     /\ decoded.done
     /\ decoded.result.ok
     /\ ChosenType(payload.payload) \in TextTypes) =>
        decoded.result.email.is_html = (ChosenType(payload.payload) = TextHtml)

\* C14: a message of a batch whose body cannot be decoded still gives an Email,
\* with an empty body, and the batch goes on; the command does not end with an
\* unhandled failure.
C14_MalformedIsolated ==
    (/\ command \in ReadCommands
     /\ \E i \in DOMAIN fetched : ~ParseEmail(fetched[i]).ok) =>
        /\ outcome # "unhandled"
        /\ Len(emails) = Len(fetched)
        /\ \A i \in DOMAIN fetched :
              ~ParseEmail(fetched[i]).ok => emails[i].body = <<>>

\* C15: the submission carries a thread id exactly when a reply_to_id is given
\* (None and the empty string are none), and then In-Reply-To, References and
\* the thread id all are that id; without one, none of the three is set.
ValuesOf(h, n) == {h[i].value : i \in {j \in DOMAIN h : h[j].name = n}}

C15_ReplyThreading ==
    (pc \in {"encoded", "decoded"} /\ submission.built) =>
        LET r == outgoing.reply_to_id
            present == r # NoValue /\ r # ""
            m == submission.message
            sm == submission.send_message
        IN  /\ sm.hasThreadId = present
            /\ present =>
                  /\ sm.threadId = r
                  /\ ValuesOf(m.headers, "In-Reply-To") = {r}
                  /\ ValuesOf(m.headers, "References") = {r}
            /\ ~present =>
                  /\ ValuesOf(m.headers, "In-Reply-To") = {}
                  /\ ValuesOf(m.headers, "References") = {}

C15_Witness ==
    /\ pc = "encoded"
    /\ outgoing.reply_to_id = "T1"
    /\ submission.send_message.hasThreadId
    /\ submission.send_message.threadId = "T1"
    /\ ValuesOf(submission.message.headers, "In-Reply-To") = {"T1"}

\* C16: parsing the message that send_email built gives back the subject and the
\* body of the OutgoingMessage, plain or HTML; the HTML message is an
\* alternative container with one text/html child, found by the walk over the
\* direct children.
C16_RoundTrip ==
    (pc = "decoded" /\ submission.built /\ decoded.done) =>
        /\ decoded.result.ok
        /\ decoded.result.email.subject = outgoing.subject
        /\ decoded.result.email.body = outgoing.body
        /\ outgoing.is_html =>
              /\ submission.message.mimeType = "multipart/alternative"
              /\ Len(submission.message.parts) = 1
              /\ submission.message.parts[1].mimeType = TextHtml

C16_Witness ==
    /\ pc = "decoded"
    /\ outgoing.is_html
    /\ outgoing.body = <<72, 233>>
    /\ payload.payload.hasParts
    /\ decoded.result.email.body = <<72, 233>>
    /\ decoded.result.email.subject = "Re: s"

\* C17: a command ends with status 0 only when no error was surfaced; every
\* error printed, a remote API failure of a read command among them, gives a
\* status other than 0.
C17_ExitCodeReflectsErrors ==
    (pc = "done" /\ outcome = "exit0") => diag = "none"

\* C18 as stated: two mark_as_read calls in a row on one message id issue the
\* same label removal, both give success, and the second leaves the labels as
\* the first left them.
C18_TwiceSucceeds ==
    \A i \in 1 .. (Len(calls) - 1) :
        calls[i].request.id = calls[i + 1].request.id =>
            /\ calls[i].request = calls[i + 1].request
            /\ calls[i].result
            /\ calls[i + 1].result
            /\ calls[i + 1].after = calls[i].after

\* C18 amended: two mark_as_read calls in a row on one message id issue the same
\* removal of UNREAD; each gives success unless its own modify call raises
\* HttpError, whether or not the message is already read; and after a first call
\* that was accepted the second leaves the labels as the first left them.
C18_MarkReadIdempotent ==
    /\ \A i \in DOMAIN calls :
          /\ calls[i].request.removeLabelIds = {"UNREAD"}
          /\ calls[i].result = ~calls[i].raised
          /\ (~calls[i].raised => calls[i].request.id \notin calls[i].after)
    /\ \A i \in 1 .. (Len(calls) - 1) :
          calls[i].request.id = calls[i + 1].request.id =>
              /\ calls[i].request = calls[i + 1].request
              /\ (~calls[i].raised => calls[i + 1].after = calls[i].after)
              /\ (~calls[i].raised /\ ~calls[i + 1].raised =>
                    calls[i].result /\ calls[i + 1].result)

C18_Witness ==
    /\ Len(calls) >= 2
    /\ calls[1].request.id = calls[2].request.id
    /\ calls[1].result
    /\ calls[2].result
    /\ calls[2].after = calls[1].after

\* C19: in one invocation the token file is read at most once, before anything
\* else, and written at most once; it is opened for writing only right after a
\* successful refresh, consent flow or code exchange; with no write, so on the
\* paths of a missing ClientSecret, the headless fallback, a rejected code and an
\* already valid Credential, it is as the invocation found it.
C19_TokenFileAccess ==
    /\ Count(log, "read_token") <= 1
    /\ Count(log, "open_token") <= 1
    /\ Count(log, "write_token") <= 1
    /\ \A i \in DOMAIN log :
          /\ (log[i] = "read_token" => i = 1)
          /\ (log[i] = "open_token" =>
                (i > 1 /\ log[i - 1] \in {"refresh_ok", "consent_ok", "exchange_ok"}))
          /\ (log[i] = "write_token" => (i > 1 /\ log[i - 1] = "open_token"))
    /\ (~Has(log, "open_token") => tokenFile = tokenAtStart)
    /\ (diag \in {"config_missing", "manual_required", "authentication_failed"} =>
          (~Has(log, "open_token") /\ tokenFile = tokenAtStart))
    /\ (LoadedValid => (~Has(log, "open_token") /\ tokenFile = tokenAtStart))

C19_Witness ==
    /\ log = <<"read_token", "refresh_ok", "open_token", "write_token", "build_ok", "get_profile">>
    /\ tokenFile # tokenAtStart
    /\ tokenFile = FileWith(creds)

\* C20: a mailbox call (list, get, send, modify, get-profile) is made only after
\* authenticate() returned success and set the service in the same invocation;
\* auth-url and auth-code never call authenticate() and make no mailbox call; a
\* failed authenticate() ends the command with status 1 before any mailbox call.
C20_MailboxAfterAuthenticate ==
    /\ HasAny(log, MailboxEvents) =>
          /\ command \notin AuthCommands
          /\ authResult = "true"
          /\ service
          /\ Has(log, "build_ok")
          /\ \A i \in DOMAIN log :
                log[i] \in MailboxEvents => First(log, "build_ok") < i
    /\ command \in AuthCommands =>
          /\ authResult = "none"
          /\ ~service
          /\ ~HasAny(log, MailboxEvents \cup {"read_token", "build_ok", "build_fail"})
    /\ authResult = "false" =>
          /\ pc = "done"
          /\ outcome = "exit1"
          /\ ~service
          /\ ~HasAny(log, MailboxEvents)

C20_Witness ==
    /\ command = "mark-read"
    /\ authResult = "true"
    /\ service
    /\ log = <<"read_token", "build_ok", "modify">>

====
